---- MODULE Spec2Model ----
(***************************************************************************)
(* The 128-bit address textual codec of the ipaddr crate: the formatter    *)
(* (src/ipv6/address/format.rs) and the parser (src/ipv6/address/parse.rs, *)
(* with the dotted-decimal parser of src/ipv4/address/parse.rs).           *)
(*                                                                         *)
(* A string is a sequence of one-character strings (bytes).  A u128 is the *)
(* sequence of its 16 octets, most significant first, and a u32 the        *)
(* sequence of its 4 octets: the model checker's integers are narrower     *)
(* than either.  An Option is the empty sequence (None) or a one-element   *)
(* sequence (Some).  Array indices are the source's, counted from 0.       *)
(***************************************************************************)
EXTENDS Integers, Sequences, FiniteSets, TLC

VARIABLES
    pc,         \* position of the run: fmt, written, parse, loop, exit, done (panic: an index out of bounds)
    ip,         \* the Ipv6Address being formatted (a u128)
    formatter,  \* the Ipv6Formatter: ellipsis, leading_zeros, upper_case, hextets
    writer,     \* the text in the writer W of the formatter; the &str given to from_str
    parser,     \* the locals of Ipv6Address::parse: bytes, offset, ellipsis, address, hextet_index
    result,     \* what Ipv6Address::from_str returned
    first,      \* the string of the first formatting, kept when the parsed value is formatted again
    round,      \* 1 for the first formatting, 2 for the formatting of the parsed value
    sink,       \* the writer W as a sink: the write calls it has received, the call it rejects
    fmt_result, \* what Ipv6Formatter::write returned
    call,       \* the last call made on the formatter
    mask,       \* a mask being made: the width of its family, the call, its argument and result
    scoped      \* the scope given to set_scope, the address before it, what scope() returned

vars == <<pc, ip, formatter, writer, parser, result, first, round, sink, fmt_result, call,
          mask, scoped>>

----------------------------------------------------------------------------
(* Bounds and input tables *)

\* Number of non-zero values a group ranges over, besides zero.
NonZeroChoices == 2

\* Longest string over Alphabet given to the parser.
MaxLen == 5

\* Most groups written in a structured input of the parser.
MaxGroups == 9

\* Number of non-zero values a group ranges over, besides zero, where the
\* formatter is configured and writes to a sink that may reject a call.
FormatChoices == 1

\* The sink rejects one of its first MaxRejected write calls, or none.
MaxRejected == 4

\* Non-zero group values, one row per choice, one column per group position.
HextetTable ==
    << <<65152, 1, 2, 34391, 59134, 2261, 21285, 65535>>,
       <<1, 1, 1, 1, 1, 1, 1, 1>>,
       <<255, 4096, 43981, 16, 3, 101, 61440, 10>> >>

----------------------------------------------------------------------------
(* Options, arrays, integers *)

None == << >>

Some(x) == <<x>>

IsSome(o) == o /= << >>

Unwrap(o) == o[1]

\* a[i] for a Rust array or slice, indices from 0
At(a, i) == a[i + 1]

\* a with a[i] = v
Put(a, i, v) == [a EXCEPT ![i + 1] = v]

\* bytes[from..]
SliceFrom(bytes, from) == SubSeq(bytes, from + 1, Len(bytes))

Zeros8 == <<0, 0, 0, 0, 0, 0, 0, 0>>

----------------------------------------------------------------------------
(* Ipv6Address: u128 <-> hextets *)

\* ((self.0 >> ((7 - i) * 16)) & 0xffff) as u16
hextet(v, i) == v[2 * i + 1] * 256 + v[2 * i + 2]

\* the array of the eight hextets
hextets(v) == [i \in 1..8 |-> hextet(v, i - 1)]

\* (u128::from(address[0]) << 112) + ... + u128::from(address[7])
pack(address) ==
    [k \in 1..16 |->
        IF k % 2 = 1 THEN address[(k + 1) \div 2] \div 256
                     ELSE address[k \div 2] % 256]

----------------------------------------------------------------------------
(* Ipv6Formatter *)

LowerDigits == <<"0", "1", "2", "3", "4", "5", "6", "7", "8", "9",
                 "a", "b", "c", "d", "e", "f">>

UpperDigits == <<"0", "1", "2", "3", "4", "5", "6", "7", "8", "9",
                 "A", "B", "C", "D", "E", "F">>

\* {:x} and {:X}: the digits of n in base 16, no leading zero, at least one digit
RECURSIVE HexDigits(_, _)
HexDigits(n, digits) ==
    IF n < 16 THEN <<digits[n + 1]>>
    ELSE HexDigits(n \div 16, digits) \o <<digits[(n % 16) + 1]>>

\* {:04x} and {:04X}: padded with zeros to four characters
RECURSIVE PadZeros(_, _)
PadZeros(s, width) == IF Len(s) >= width THEN s ELSE PadZeros(<<"0">> \o s, width)

new(h) ==
    [ellipsis |-> TRUE, leading_zeros |-> FALSE, upper_case |-> FALSE, hextets |-> h]

set_ellipsis(f, flag) == [f EXCEPT !.ellipsis = flag]

set_leading_zeros(f, flag) == [f EXCEPT !.leading_zeros = flag]

set_upper_case(f, flag) == [f EXCEPT !.upper_case = flag]

rfc_5952(f) == set_upper_case(set_leading_zeros(set_ellipsis(f, TRUE), FALSE), FALSE)

\* expanded built on rfc_5952: the case of the letters is reset as well
expanded_resets_case(f) == set_leading_zeros(set_ellipsis(rfc_5952(f), FALSE), TRUE)

expanded(f) == set_leading_zeros(set_ellipsis(f, FALSE), TRUE)

\* One iteration of the scan of longest_zero_sequence, at group i.
lzs_step(st, h, i) ==
    IF At(h, i) = 0
    THEN IF ~IsSome(st.start)
         THEN [st EXCEPT !.start = Some(i)]
         ELSE [st EXCEPT !.end = Some(i)]
    ELSE IF IsSome(st.end)
         THEN LET cur_start == Unwrap(st.start)
                  cur_end == Unwrap(st.end)
                  taken == [start |-> None, end |-> None,
                            longest_seq |-> Some(<<cur_start, cur_end>>)]
              IN  IF IsSome(st.longest_seq)
                  THEN LET prev_start == Unwrap(st.longest_seq)[1]
                           prev_end == Unwrap(st.longest_seq)[2]
                       IN  IF prev_end - prev_start < cur_end - cur_start
                           THEN taken
                           ELSE st
                  ELSE taken
         ELSE st

RECURSIVE lzs_scan(_, _, _)
lzs_scan(st, h, i) ==
    IF i > 7 THEN st ELSE lzs_scan(lzs_step(st, h, i), h, i + 1)

\* Option<(start, end)>: the groups start..=end that `::` stands for
longest_zero_sequence(h) ==
    LET st == lzs_scan([start |-> None, end |-> None, longest_seq |-> None], h, 0)
    IN  IF IsSome(st.end) /\ ~IsSome(st.longest_seq)
        THEN Some(<<Unwrap(st.start), Unwrap(st.end)>>)
        ELSE st.longest_seq

\* A writer W: the text written to it, the number of write calls it has
\* received and the number of the call it rejects (None: it rejects none).
\* String::with_capacity(40) is the empty String, which rejects no call.
String == [text |-> << >>, calls |-> 0, rejects |-> None]

\* W::write_str and W::write_fmt, one call: the fmt::Result and the writer after it.
\* A rejected call leaves the text as it was.
write_str(w, s) ==
    LET n == w.calls + 1
    IN  IF IsSome(w.rejects) /\ Unwrap(w.rejects) = n
        THEN [res |-> "Err", w |-> [w EXCEPT !.calls = n]]
        ELSE [res |-> "Ok", w |-> [w EXCEPT !.calls = n, !.text = @ \o s]]

\* write_hextet where the upper-case branch with leading zeros uses "{:X}"
write_hextet_upper_unpadded(f, w, h) ==
    IF f.upper_case THEN write_str(w, HexDigits(h, UpperDigits))
    ELSE IF f.leading_zeros THEN write_str(w, PadZeros(HexDigits(h, LowerDigits), 4))
    ELSE write_str(w, HexDigits(h, LowerDigits))

\* write_hextet where "{:04x}" is "{:05x}": five characters to a group
write_hextet_wide(f, w, h) ==
    LET digits == IF f.upper_case THEN UpperDigits ELSE LowerDigits
    IN  IF f.leading_zeros
        THEN write_str(w, PadZeros(HexDigits(h, digits), 5))
        ELSE write_str(w, HexDigits(h, digits))

\* write_hextet where "{:04x}" is "{:03x}": padded to three characters
write_hextet_pad3(f, w, h) ==
    LET digits == IF f.upper_case THEN UpperDigits ELSE LowerDigits
    IN  IF f.leading_zeros
        THEN write_str(w, PadZeros(HexDigits(h, digits), 3))
        ELSE write_str(w, HexDigits(h, digits))

\* one write!(self.writer, ...) of a group
write_hextet(f, w, h) ==
    LET digits == IF f.upper_case THEN UpperDigits ELSE LowerDigits
    IN  IF f.leading_zeros
        THEN write_str(w, PadZeros(HexDigits(h, digits), 4))
        ELSE write_str(w, HexDigits(h, digits))

\* write_hextets_rest where the result of writing the separator is dropped:
\* self.writer.write_str(":") without the `?`
RECURSIVE write_hextets_rest_unchecked(_, _, _, _)
write_hextets_rest_unchecked(f, w, i, hi) ==
    IF i > hi THEN [res |-> "Ok", w |-> w]
    ELSE LET colon == write_str(w, <<":">>)
             group == write_hextet(f, colon.w, At(f.hextets, i))
         IN  IF group.res = "Err" THEN group
             ELSE write_hextets_rest_unchecked(f, group.w, i + 1, hi)

\* the loop `for i in range` of write_hextets, from group i to group hi
RECURSIVE write_hextets_rest(_, _, _, _)
write_hextets_rest(f, w, i, hi) ==
    IF i > hi THEN [res |-> "Ok", w |-> w]
    ELSE LET colon == write_str(w, <<":">>)
         IN  IF colon.res = "Err" THEN colon
             ELSE LET group == write_hextet(f, colon.w, At(f.hextets, i))
                  IN  IF group.res = "Err" THEN group
                      ELSE write_hextets_rest(f, group.w, i + 1, hi)

\* write_hextets over the range lo..hi, exclusive of hi
write_hextets_exclusive(f, w, lo, hi) ==
    IF lo > hi - 1 THEN [res |-> "Ok", w |-> w]
    ELSE LET group == write_hextet(f, w, At(f.hextets, lo))
         IN  IF group.res = "Err" THEN group
             ELSE write_hextets_rest(f, group.w, lo + 1, hi - 1)

\* write_hextets over the range lo..=hi: nothing when the range is empty
write_hextets(f, w, lo, hi) ==
    IF lo > hi THEN [res |-> "Ok", w |-> w]
    ELSE LET group == write_hextet(f, w, At(f.hextets, lo))
         IN  IF group.res = "Err" THEN group
             ELSE write_hextets_rest(f, group.w, lo + 1, hi)

\* write where the groups after the `::` are written by the loop of
\* write_hextets alone: each of them after a separator
write_separator_after_marker(f, w) ==
    IF ~f.ellipsis
    THEN write_hextets(f, w, 0, 7)
    ELSE LET seq == longest_zero_sequence(f.hextets)
         IN  IF IsSome(seq)
             THEN LET before == write_hextets(f, w, 0, Unwrap(seq)[1] - 1)
                  IN  IF before.res = "Err" THEN before
                      ELSE LET marker == write_str(before.w, <<":", ":">>)
                           IN  IF marker.res = "Err" THEN marker
                               ELSE write_hextets_rest(f, marker.w, Unwrap(seq)[2] + 1, 7)
             ELSE write_hextets(f, w, 0, 7)

\* write where the run of zero groups is marked by one colon
write_single_colon_marker(f, w) ==
    IF ~f.ellipsis
    THEN write_hextets(f, w, 0, 7)
    ELSE LET seq == longest_zero_sequence(f.hextets)
         IN  IF IsSome(seq)
             THEN LET before == write_hextets(f, w, 0, Unwrap(seq)[1] - 1)
                  IN  IF before.res = "Err" THEN before
                      ELSE LET marker == write_str(before.w, <<":">>)
                           IN  IF marker.res = "Err" THEN marker
                               ELSE write_hextets(f, marker.w, Unwrap(seq)[2] + 1, 7)
             ELSE write_hextets(f, w, 0, 7)

\* Ipv6Formatter::write: the fmt::Result and the writer after it
write(f, w) ==
    IF ~f.ellipsis
    THEN write_hextets(f, w, 0, 7)
    ELSE LET seq == longest_zero_sequence(f.hextets)
         IN  IF IsSome(seq)
             THEN LET before == write_hextets(f, w, 0, Unwrap(seq)[1] - 1)
                  IN  IF before.res = "Err" THEN before
                      ELSE LET marker == write_str(before.w, <<":", ":">>)
                           IN  IF marker.res = "Err" THEN marker
                               ELSE write_hextets(f, marker.w, Unwrap(seq)[2] + 1, 7)
             ELSE write_hextets(f, w, 0, 7)

----------------------------------------------------------------------------
(* Ipv4Address::parse, the dotted-decimal parser *)

DecimalChars == <<"0", "1", "2", "3", "4", "5", "6", "7", "8", "9">>

LowerHexLetters == <<"a", "b", "c", "d", "e", "f">>

UpperHexLetters == <<"A", "B", "C", "D", "E", "F">>

InSeq(c, table) == \E k \in 1..Len(table) : table[k] = c

\* byte - table[1], for a byte of the table
Offset(c, table) == (CHOOSE k \in 1..Len(table) : table[k] = c) - 1

is_decimal_digit(byte) == InSeq(byte, DecimalChars)

decimal_to_digit(byte) == Offset(byte, DecimalChars)

\* the first loop of read_octet from digit k on: the number of digits read, at most 3
RECURSIVE octet_digits(_, _)
octet_digits(bytes, k) ==
    IF k < 3 /\ k < Len(bytes) /\ is_decimal_digit(At(bytes, k))
    THEN octet_digits(bytes, k + 1)
    ELSE k

\* res = 10 * res + digit, over digits[0..count]
RECURSIVE DecimalValue(_, _)
DecimalValue(bytes, count) ==
    IF count = 0 THEN 0
    ELSE 10 * DecimalValue(bytes, count - 1) + decimal_to_digit(At(bytes, count - 1))

\* read_octet without the check `res > 0xff`: `res as u8` keeps the low 8 bits
read_octet_unchecked(bytes) ==
    LET count == octet_digits(bytes, 0)
        res == DecimalValue(bytes, count)
    IN  IF count = 0 THEN <<0, 0>> ELSE <<count, res % 256>>

\* (bytes_read, octet)
read_octet(bytes) ==
    LET count == octet_digits(bytes, 0)
        res == DecimalValue(bytes, count)
    IN  IF count = 0 THEN <<0, 0>>
        ELSE IF res > 255 THEN <<0, 0>>
        ELSE <<count, res>>

\* The loop `for i in 0..4` of Ipv4Address::parse from iteration i on.
\* Returns Some(address) with the loop's final offset, or None for Err(()).
RECURSIVE ipv4_loop(_, _, _, _)
ipv4_loop(bytes, i, offset, address) ==
    IF offset = Len(bytes) THEN None
    ELSE LET r == read_octet(SliceFrom(bytes, offset))
             bytes_read == r[1]
             octet == r[2]
             offset1 == offset + bytes_read
             address1 == Put(address, i, octet)
         IN  IF bytes_read = 0 THEN None
             ELSE IF i = 3 THEN Some(<<address1, offset1>>)
             ELSE IF offset1 >= Len(bytes) \/ At(bytes, offset1) /= "." THEN None
             ELSE ipv4_loop(bytes, i + 1, offset1 + 1, address1)

\* Result<u32, ()>: Some(the four octets of the u32) or None
ipv4_parse(bytes) ==
    IF Len(bytes) > 15 \/ Len(bytes) < 7 THEN None
    ELSE LET r == ipv4_loop(bytes, 0, 0, <<0, 0, 0, 0>>)
         IN  IF ~IsSome(r) THEN None
             ELSE IF Unwrap(r)[2] < Len(bytes) THEN None
             ELSE Some(Unwrap(r)[1])

----------------------------------------------------------------------------
(* Ipv6Address::parse *)

is_hex_digit(byte) ==
    InSeq(byte, DecimalChars) \/ InSeq(byte, LowerHexLetters) \/ InSeq(byte, UpperHexLetters)

\* hex_to_digit with the letters counted from 0 instead of from 10
hex_to_digit_letters_from_zero(byte) ==
    IF InSeq(byte, DecimalChars) THEN Offset(byte, DecimalChars)
    ELSE IF InSeq(byte, LowerHexLetters) THEN Offset(byte, LowerHexLetters)
    ELSE Offset(byte, UpperHexLetters)

hex_to_digit(byte) ==
    IF InSeq(byte, DecimalChars) THEN Offset(byte, DecimalChars)
    ELSE IF InSeq(byte, LowerHexLetters) THEN Offset(byte, LowerHexLetters) + 10
    ELSE Offset(byte, UpperHexLetters) + 10

\* hextet_digits without the stop at four digits: every hex digit in a row is read
RECURSIVE hextet_digits_unbounded(_, _)
hextet_digits_unbounded(bytes, k) ==
    IF k < Len(bytes) /\ is_hex_digit(At(bytes, k))
    THEN hextet_digits_unbounded(bytes, k + 1)
    ELSE k

\* the first loop of read_hextet from digit k on: the number of digits read, at most 4
RECURSIVE hextet_digits(_, _)
hextet_digits(bytes, k) ==
    IF k < 4 /\ k < Len(bytes) /\ is_hex_digit(At(bytes, k))
    THEN hextet_digits(bytes, k + 1)
    ELSE k

RECURSIVE Pow16(_)
Pow16(n) == IF n = 0 THEN 1 ELSE 16 * Pow16(n - 1)

\* res += digit << shift over digits[k..count], shift starting at (count - 1 - k) * 4
RECURSIVE HextetValue(_, _, _)
HextetValue(bytes, k, count) ==
    IF k >= count THEN 0
    ELSE ((hex_to_digit(At(bytes, k)) * Pow16(count - 1 - k)) % 65536)
         + HextetValue(bytes, k + 1, count)

\* (bytes_read, hextet)
read_hextet(bytes) ==
    LET count == hextet_digits(bytes, 0)
    IN  IF count = 0 THEN <<0, 0>> ELSE <<count, HextetValue(bytes, 0, count) % 65536>>

\* the locals of parse on entry
parse_entry(bytes) ==
    [bytes |-> bytes, offset |-> 0, ellipsis |-> None, address |-> Zeros8,
     hextet_index |-> 0]

\* parse_enter without the check `bytes.len() > 46`
parse_enter_any_length(p) ==
    LET bytes == p.bytes
    IN  IF Len(bytes) < 2 THEN [ctl |-> "err", p |-> p]
        ELSE IF At(bytes, 0) = ":"
        THEN IF At(bytes, 1) = ":"
             THEN IF Len(bytes) = 2
                  THEN [ctl |-> "ok", p |-> p]
                  ELSE [ctl |-> "loop",
                        p |-> [p EXCEPT !.ellipsis = Some(0), !.offset = 2]]
             ELSE [ctl |-> "err", p |-> p]
        ELSE [ctl |-> "loop", p |-> p]

\* Lines 28-55: the length check and the leading `::`.
\* ctl is where parse goes next: "loop", or "ok" / "err" for a return.
parse_enter(p) ==
    LET bytes == p.bytes
    IN  IF Len(bytes) > 46 \/ Len(bytes) < 2 THEN [ctl |-> "err", p |-> p]
        ELSE IF At(bytes, 0) = ":"
        THEN IF At(bytes, 1) = ":"
             THEN IF Len(bytes) = 2
                  THEN [ctl |-> "ok", p |-> p]
                  ELSE [ctl |-> "loop",
                        p |-> [p EXCEPT !.ellipsis = Some(0), !.offset = 2]]
             ELSE [ctl |-> "err", p |-> p]
        ELSE [ctl |-> "loop", p |-> p]

\* after_hextet where the `.` branch leaves address[hextet_index - 1], the group
\* read as hexadecimal, as it is and writes only the low 16 bits of the suffix
after_hextet_keeps_hextet(p, bytes_read) ==
    LET bytes == p.bytes
        c == At(bytes, p.offset)
    IN  IF c = ":"
        THEN IF p.offset + 1 = Len(bytes)
             THEN [ctl |-> "err", p |-> [p EXCEPT !.offset = p.offset + 1]]
             ELSE [ctl |-> "loop", p |-> [p EXCEPT !.offset = p.offset + 1]]
        ELSE IF c = "."
        THEN LET ipv4 == ipv4_parse(SliceFrom(bytes, p.offset - bytes_read))
             IN  IF ~IsSome(ipv4) THEN [ctl |-> "err", p |-> p]
                 ELSE IF p.hextet_index > 7 THEN [ctl |-> "panic", p |-> p]
                 ELSE LET v == Unwrap(ipv4)
                          low == v[3] * 256 + v[4]
                      IN  [ctl |-> "exit",
                           p |-> [p EXCEPT
                                    !.offset = Len(bytes),
                                    !.address = Put(p.address, p.hextet_index, low),
                                    !.hextet_index = p.hextet_index + 1]]
        ELSE [ctl |-> "err", p |-> p]

\* after_hextet without the check `offset == bytes.len()` after a colon: the
\* loop goes on and finds the end of the input
after_hextet_trailing_colon(p, bytes_read) ==
    LET bytes == p.bytes
        c == At(bytes, p.offset)
    IN  IF c = ":"
        THEN [ctl |-> "loop", p |-> [p EXCEPT !.offset = p.offset + 1]]
        ELSE IF c = "."
        THEN LET ipv4 == ipv4_parse(SliceFrom(bytes, p.offset - bytes_read))
             IN  IF ~IsSome(ipv4) THEN [ctl |-> "err", p |-> p]
                 ELSE IF p.hextet_index > 7 THEN [ctl |-> "panic", p |-> p]
                 ELSE LET v == Unwrap(ipv4)
                          high == v[1] * 256 + v[2]
                          low == v[3] * 256 + v[4]
                      IN  [ctl |-> "exit",
                           p |-> [p EXCEPT
                                    !.offset = Len(bytes),
                                    !.address = Put(Put(p.address, p.hextet_index - 1, high),
                                                    p.hextet_index, low),
                                    !.hextet_index = p.hextet_index + 1]]
        ELSE [ctl |-> "err", p |-> p]

\* Lines 104-144: what follows a group that was neither the eighth nor the last.
after_hextet(p, bytes_read) ==
    LET bytes == p.bytes
        c == At(bytes, p.offset)
    IN  IF c = ":"
        THEN IF p.offset + 1 = Len(bytes)
             THEN [ctl |-> "err", p |-> [p EXCEPT !.offset = p.offset + 1]]
             ELSE [ctl |-> "loop", p |-> [p EXCEPT !.offset = p.offset + 1]]
        ELSE IF c = "."
        THEN LET ipv4 == ipv4_parse(SliceFrom(bytes, p.offset - bytes_read))
             IN  IF ~IsSome(ipv4) THEN [ctl |-> "err", p |-> p]
                 ELSE IF p.hextet_index > 7 THEN [ctl |-> "panic", p |-> p]
                 ELSE LET v == Unwrap(ipv4)
                          high == v[1] * 256 + v[2]
                          low == v[3] * 256 + v[4]
                      IN  [ctl |-> "exit",
                           p |-> [p EXCEPT
                                    !.offset = Len(bytes),
                                    !.address = Put(Put(p.address, p.hextet_index - 1, high),
                                                    p.hextet_index, low),
                                    !.hextet_index = p.hextet_index + 1]]
        ELSE [ctl |-> "err", p |-> p]

\* loop_body without the check `ellipsis.is_some()`: a second `::` replaces the first
loop_body_any_ellipsis(p) ==
    LET bytes == p.bytes
    IN  IF p.offset = Len(bytes) THEN [ctl |-> "exit", p |-> p]
        ELSE LET r == read_hextet(SliceFrom(bytes, p.offset))
                 bytes_read == r[1]
                 h == r[2]
             IN  IF bytes_read = 0
                 THEN IF At(bytes, p.offset) = ":"
                      THEN [ctl |-> "loop",
                            p |-> [p EXCEPT !.ellipsis = Some(p.hextet_index),
                                            !.offset = p.offset + 1]]
                      ELSE [ctl |-> "err", p |-> p]
                 ELSE IF p.hextet_index > 7 THEN [ctl |-> "panic", p |-> p]
                 ELSE LET p1 == [p EXCEPT !.address = Put(p.address, p.hextet_index, h),
                                          !.offset = p.offset + bytes_read,
                                          !.hextet_index = p.hextet_index + 1]
                      IN  IF p1.hextet_index = 8 \/ p1.offset = Len(bytes)
                          THEN [ctl |-> "exit", p |-> p1]
                          ELSE after_hextet(p1, bytes_read)

\* loop_body without the break at `hextet_index == 8`: the loop is left only
\* at the end of the input
loop_body_no_eighth_break(p) ==
    LET bytes == p.bytes
    IN  IF p.offset = Len(bytes) THEN [ctl |-> "exit", p |-> p]
        ELSE LET r == read_hextet(SliceFrom(bytes, p.offset))
                 bytes_read == r[1]
                 h == r[2]
             IN  IF bytes_read = 0
                 THEN IF At(bytes, p.offset) = ":"
                      THEN IF IsSome(p.ellipsis)
                           THEN [ctl |-> "err", p |-> p]
                           ELSE [ctl |-> "loop",
                                 p |-> [p EXCEPT !.ellipsis = Some(p.hextet_index),
                                                 !.offset = p.offset + 1]]
                      ELSE [ctl |-> "err", p |-> p]
                 ELSE IF p.hextet_index > 7 THEN [ctl |-> "panic", p |-> p]
                 ELSE LET p1 == [p EXCEPT !.address = Put(p.address, p.hextet_index, h),
                                          !.offset = p.offset + bytes_read,
                                          !.hextet_index = p.hextet_index + 1]
                      IN  IF p1.offset = Len(bytes)
                          THEN [ctl |-> "exit", p |-> p1]
                          ELSE after_hextet(p1, bytes_read)

\* Lines 57-145: one iteration of the loop.
\* ctl: "loop" to iterate again, "exit" for break, "err" for return Err(()),
\* "panic" for an array access out of bounds.
loop_body(p) ==
    LET bytes == p.bytes
    IN  IF p.offset = Len(bytes) THEN [ctl |-> "exit", p |-> p]
        ELSE LET r == read_hextet(SliceFrom(bytes, p.offset))
                 bytes_read == r[1]
                 h == r[2]
             IN  IF bytes_read = 0
                 THEN IF At(bytes, p.offset) = ":"
                      THEN IF IsSome(p.ellipsis)
                           THEN [ctl |-> "err", p |-> p]
                           ELSE [ctl |-> "loop",
                                 p |-> [p EXCEPT !.ellipsis = Some(p.hextet_index),
                                                 !.offset = p.offset + 1]]
                      ELSE [ctl |-> "err", p |-> p]
                 ELSE IF p.hextet_index > 7 THEN [ctl |-> "panic", p |-> p]
                 ELSE LET p1 == [p EXCEPT !.address = Put(p.address, p.hextet_index, h),
                                          !.offset = p.offset + bytes_read,
                                          !.hextet_index = p.hextet_index + 1]
                      IN  IF p1.hextet_index = 8 \/ p1.offset = Len(bytes)
                          THEN [ctl |-> "exit", p |-> p1]
                          ELSE after_hextet(p1, bytes_read)

\* shift_hextets with the two assignments of the loop body in the other order:
\* address[index] = 0 before address[index + nb_zeros] = address[index]
RECURSIVE shift_hextets_zero_first(_, _, _, _)
shift_hextets_zero_first(address, ellipsis_index, index, nb_zeros) ==
    IF index < ellipsis_index THEN address
    ELSE shift_hextets_zero_first(Put(Put(address, index, 0), index + nb_zeros, 0),
                                  ellipsis_index, index - 1, nb_zeros)

\* shift_hextets over (ellipsis_index + 1..hextet_index): the group that
\* follows the ellipsis stays where it was read
RECURSIVE shift_hextets_after_first(_, _, _, _)
shift_hextets_after_first(address, ellipsis_index, index, nb_zeros) ==
    IF index <= ellipsis_index THEN address
    ELSE shift_hextets_after_first(
             Put(Put(address, index + nb_zeros, At(address, index)), index, 0),
             ellipsis_index, index - 1, nb_zeros)

\* for index in (ellipsis_index..hextet_index).rev(): the iterations from `index` down
RECURSIVE shift_hextets(_, _, _, _)
shift_hextets(address, ellipsis_index, index, nb_zeros) ==
    IF index < ellipsis_index THEN address
    ELSE shift_hextets(Put(Put(address, index + nb_zeros, At(address, index)), index, 0),
                       ellipsis_index, index - 1, nb_zeros)

\* parse_exit without the check `hextet_index == 8 && ellipsis.is_some()`
parse_exit_redundant_ellipsis(p) ==
    IF p.offset < Len(p.bytes) THEN [ctl |-> "err", p |-> p]
    ELSE IF p.hextet_index < 8
    THEN IF IsSome(p.ellipsis)
         THEN [ctl |-> "ok",
               p |-> [p EXCEPT !.address =
                        shift_hextets(p.address, Unwrap(p.ellipsis), p.hextet_index - 1,
                                      8 - p.hextet_index)]]
         ELSE [ctl |-> "err", p |-> p]
    ELSE [ctl |-> "ok", p |-> p]

\* Lines 147-183: the checks after the loop, the ellipsis shift and the result.
parse_exit(p) ==
    IF p.offset < Len(p.bytes) THEN [ctl |-> "err", p |-> p]
    ELSE IF p.hextet_index = 8 /\ IsSome(p.ellipsis) THEN [ctl |-> "err", p |-> p]
    ELSE IF p.hextet_index < 8
    THEN IF IsSome(p.ellipsis)
         THEN [ctl |-> "ok",
               p |-> [p EXCEPT !.address =
                        shift_hextets(p.address, Unwrap(p.ellipsis), p.hextet_index - 1,
                                      8 - p.hextet_index)]]
         ELSE [ctl |-> "err", p |-> p]
    ELSE [ctl |-> "ok", p |-> p]

\* Result<Ipv6Address, ParsingFailed>
Ok(v) == [tag |-> "Ok", addr |-> v, input |-> << >>]

ParsingFailed(s) == [tag |-> "Err", addr |-> << >>, input |-> s]

NoResult == [tag |-> "None", addr |-> << >>, input |-> << >>]

\* from_str_result where the error carries the bytes parse had not consumed
from_str_result_rest(ctl, p) ==
    IF ctl = "ok" THEN Ok(pack(p.address)) ELSE ParsingFailed(SliceFrom(p.bytes, p.offset))

\* from_str: parse(bytes).map_err(|()| ParsingFailed(s.into())).map(Ipv6Address)
from_str_result(ctl, p) ==
    IF ctl = "ok" THEN Ok(pack(p.address)) ELSE ParsingFailed(p.bytes)

----------------------------------------------------------------------------
(* Ipv6Mask and Ipv4Mask.  The u128 or u32 of a mask is the sequence of its
   bits, most significant first. *)

IPV6_MAX_PREFIXLEN == 128

IPV4_MAX_PREFIXLEN == 32

\* u128::max_value(), u32::max_value()
max_value(width) == [i \in 1..width |-> 1]

\* the integers 0 and 1
zero(width) == [i \in 1..width |-> 0]

one(width) == [i \in 1..width |-> IF i = width THEN 1 ELSE 0]

\* b << k for k below the width: the bits shifted out are lost
shl(b, k) == [i \in 1..Len(b) |-> IF i + k <= Len(b) THEN b[i + k] ELSE 0]

\* b - 1 for b above 0: the lowest 1 and the zeros below it are flipped
dec(b) ==
    LET low == CHOOSE j \in 1..Len(b) : b[j] = 1 /\ \A i \in (j + 1)..Len(b) : b[i] = 0
    IN  [i \in 1..Len(b) |-> IF i < low THEN b[i] ELSE 1 - b[i]]

count_ones(b) == Cardinality({ i \in 1..Len(b) : b[i] = 1 })

count_zeros(b) == Cardinality({ i \in 1..Len(b) : b[i] = 0 })

\* the zeros of b below its bit k, when the bits below k are zeros
RECURSIVE zeros_below(_, _)
zeros_below(b, k) ==
    IF k = 0 \/ b[k] = 1 THEN Len(b) - k ELSE zeros_below(b, k - 1)

trailing_zeros(b) == zeros_below(b, Len(b))

\* Result<Ipv6Mask, InvalidMask>
OkMask(value) == [tag |-> "Ok", value |-> value]

InvalidMask == [tag |-> "InvalidMask", value |-> << >>]

is_valid_mask(value) == count_zeros(value) = trailing_zeros(value)

\* Ipv6Mask::prefixlen, Ipv4Mask::prefixlen
prefixlen(m) == count_ones(m)

\* from_prefixlen where the ones are shifted one bit short
from_prefixlen_short(n, max) ==
    IF n = max THEN OkMask(max_value(max))
    ELSE IF n = 0 THEN OkMask(zero(max))
    ELSE IF n < max THEN OkMask(shl(dec(shl(one(max), n)), max - n - 1))
    ELSE InvalidMask

\* Ipv6Mask::from_prefixlen (max = IPV6_MAX_PREFIXLEN) and
\* Ipv4Mask::from_prefixlen (max = IPV4_MAX_PREFIXLEN), n a u8
from_prefixlen(n, max) ==
    IF n = max THEN OkMask(max_value(max))
    ELSE IF n = 0 THEN OkMask(zero(max))
    ELSE IF n < max THEN OkMask(shl(dec(shl(one(max), n)), max - n))
    ELSE InvalidMask

\* impl TryFrom<u128> for Ipv6Mask, impl TryFrom<u32> for Ipv4Mask
try_from(value) == IF is_valid_mask(value) THEN OkMask(value) ELSE InvalidMask

\* no mask made
NoMask ==
    [width |-> 0, op |-> "none", n |-> 0, value |-> << >>,
     res |-> [tag |-> "None", value |-> << >>], len |-> None]

----------------------------------------------------------------------------
(* Ipv6Address::scope and set_scope.  The u128 of the address is the sequence
   of its 16 octets, most significant first. *)

\* x & y and x | y for two octets
RECURSIVE and_u8(_, _)
and_u8(x, y) ==
    IF x = 0 \/ y = 0 THEN 0
    ELSE (x % 2) * (y % 2) + 2 * and_u8(x \div 2, y \div 2)

RECURSIVE or_u8(_, _)
or_u8(x, y) ==
    IF x = 0 /\ y = 0 THEN 0
    ELSE (IF x % 2 = 1 \/ y % 2 = 1 THEN 1 ELSE 0) + 2 * or_u8(x \div 2, y \div 2)

\* a & b and a | b for two u128
and_u128(a, b) == [k \in 1..16 |-> and_u8(a[k], b[k])]

or_u128(a, b) == [k \in 1..16 |-> or_u8(a[k], b[k])]

\* v >> n and v << n for a u128 and n a multiple of 8 below 128
shr_u128(v, n) == [k \in 1..16 |-> IF k - (n \div 8) >= 1 THEN v[k - (n \div 8)] ELSE 0]

shl_u128(v, n) == [k \in 1..16 |-> IF k + (n \div 8) <= 16 THEN v[k + (n \div 8)] ELSE 0]

\* u128::from(x) for a u8 x
u128_from(x) == [k \in 1..16 |-> IF k = 16 THEN x ELSE 0]

\* 0x000f_0000_0000_0000_0000_0000_0000_0000
ScopeFieldMask == [k \in 1..16 |-> IF k = 2 THEN 15 ELSE 0]

\* 0xfff0_ffff_ffff_ffff_ffff_ffff_ffff_ffff
ScopeFieldClear == [k \in 1..16 |-> IF k = 2 THEN 240 ELSE 255]

\* Ipv6AddressScope: a variant, with the u8 of Reserved and Unassigned
InterfaceLocal == <<"InterfaceLocal">>

LinkLocal == <<"LinkLocal">>

AdminLocal == <<"AdminLocal">>

SiteLocal == <<"SiteLocal">>

OrganizationLocal == <<"OrganizationLocal">>

Global == <<"Global">>

Reserved(n) == <<"Reserved", n>>

Unassigned(n) == <<"Unassigned", n>>

\* impl From<Ipv6AddressScope> for u8
u8_from(s) ==
    IF s[1] = "Reserved" THEN s[2]
    ELSE IF s = InterfaceLocal THEN 1
    ELSE IF s = LinkLocal THEN 2
    ELSE IF s = AdminLocal THEN 4
    ELSE IF s = SiteLocal THEN 5
    ELSE IF s[1] = "Unassigned" THEN s[2]
    ELSE IF s = OrganizationLocal THEN 8
    ELSE 14

\* the arms of the match of scope() on an integer i below 256; "unreachable"
\* is the panic of unreachable!()
scope_match(i) ==
    IF i = 0 \/ i = 3 \/ i = 15 THEN Reserved(i)
    ELSE IF i = 1 THEN InterfaceLocal
    ELSE IF i = 2 THEN LinkLocal
    ELSE IF i = 4 THEN AdminLocal
    ELSE IF i = 5 THEN SiteLocal
    ELSE IF i = 6 \/ i = 7 \/ i \in 9..13 THEN Unassigned(i)
    ELSE IF i = 8 THEN OrganizationLocal
    ELSE IF i = 14 THEN Global
    ELSE <<"unreachable">>

\* Ipv6Address::scope: the match on (self.0 & 0x000f_0000_...) >> 120, an
\* integer below 256 that is the last octet of the shifted value
scope(v) == scope_match(shr_u128(and_u128(v, ScopeFieldMask), 120)[16])

\* Ipv6Address::set_scope: the address after the call
set_scope(v, s) ==
    or_u128(and_u128(v, ScopeFieldClear), shl_u128(u128_from(u8_from(s)), 120))

\* neither set_scope nor scope called
NoScope == [set |-> None, before |-> << >>, got |-> None]

----------------------------------------------------------------------------
(* The two conversions as functions of their argument *)

\* the loop of parse run from p until it leaves by break, return or panic
RECURSIVE parse_loop(_)
parse_loop(p) ==
    LET r == loop_body(p)
    IN  IF r.ctl = "loop" THEN parse_loop(r.p) ELSE r

\* Ipv6Address::parse(bytes): ctl is "ok", "err" or "panic"
parse(bytes) ==
    LET e == parse_enter(parse_entry(bytes))
    IN  IF e.ctl /= "loop" THEN e
        ELSE LET l == parse_loop(e.p)
             IN  IF l.ctl = "exit" THEN parse_exit(l.p) ELSE l

\* Ipv6Address::from_str(s)
from_str(s) ==
    LET r == parse(s)
    IN  from_str_result(r.ctl, r.p)

\* Ipv6Address::to_string: the String written; write into a String returns Ok
to_string(v) == write(rfc_5952(new(hextets(v))), String).w.text

----------------------------------------------------------------------------
(* The values formatted and the strings parsed *)

\* The group arrays whose group i is zero or one of the first NonZeroChoices
\* entries of column i of HextetTable.
GroupArrays ==
    { [i \in 1..8 |-> IF c[i] = 0 THEN 0 ELSE HextetTable[c[i]][i]] :
        c \in [1..8 -> 0..NonZeroChoices] }

AddressValues == { pack(h) : h \in GroupArrays }

\* The group arrays whose group i is zero or one of the last FormatChoices
\* entries of column i of HextetTable.
FormatArrays ==
    { [i \in 1..8 |-> IF c[i] = 0 THEN 0
                      ELSE HextetTable[Len(HextetTable) + 1 - c[i]][i]] :
        c \in [1..8 -> 0..FormatChoices] }

FormatValues == { pack(h) : h \in FormatArrays }

\* Bytes of the short strings: a decimal digit, a hex letter, the two
\* separators and a byte that belongs to no address.
Alphabet == {"1", "a", ":", ".", " "}

\* Every string over Alphabet of at most MaxLen bytes.
ShortStrings == UNION { [1..n -> Alphabet] : n \in 0..MaxLen }

\* The text of the k-th group of a structured input.
GroupTexts ==
    << <<"f", "e", "8", "0">>,
       <<"2">>,
       <<"3">>,
       <<"4">>,
       <<"8", "6", "5", "7">>,
       <<"e", "6", "f", "e">>,
       <<"8", "d", "5">>,
       <<"5", "3", "2", "5">>,
       <<"9">>,
       <<"a">>,
       <<"b">> >>

\* Dotted-decimal suffixes, well-formed and not, of a structured input.
SuffixTexts ==
    << <<"1", ".", "2", ".", "3", ".", "4">>,
       <<"2", "5", "5", ".", "2", "5", "5", ".", "2", "5", "5", ".", "2", "5", "5">>,
       <<"1", "2", "8", ".", "0", ".", "1", "0", ".", "1">>,
       <<"2", "5", "6", ".", "0", ".", "0", ".", "1">>,
       <<"1", ".", "2", ".", "3">>,
       <<"1", ".", "2", ".", "3", ".", "4", ".", "5">>,
       <<"1", ".", "2", ".", "3", ".", "3", "0", "0">>,
       <<"1", ".", ".", "3", ".", "4">> >>

\* What a structured input ends with, after its last group or suffix.
TailTexts ==
    << <<>>,
       <<":">>,
       <<":", ":">>,
       <<" ">>,
       <<"g">> >>

\* items[from..=to] joined with `:`
RECURSIVE Join(_, _, _)
Join(items, from, to) ==
    IF from > to THEN << >>
    ELSE IF from = to THEN items[to]
    ELSE Join(items, from, to - 1) \o <<":">> \o items[to]

\* The text of group k of a structured input of which group w is widened:
\* by a digit `1` at its end when k = w, by a digit `0` at its front when
\* k = -w; w = 0 widens no group.
WideGroupText(k, w) ==
    IF k = w THEN GroupTexts[k] \o <<"1">>
    ELSE IF k = -w THEN <<"0">> \o GroupTexts[k]
    ELSE GroupTexts[k]

\* g groups of which group w is widened, then suffix number s (0: none); `::`
\* after the first m items (m = -1: no `::`); then tail number t.
WideInput(g, s, m, t, w) ==
    LET items == [k \in 1..g |-> WideGroupText(k, w)]
                 \o (IF s = 0 THEN << >> ELSE <<SuffixTexts[s]>>)
        n == Len(items)
    IN  (IF m < 0 THEN Join(items, 1, n)
         ELSE Join(items, 1, m) \o <<":", ":">> \o Join(items, m + 1, n))
        \o TailTexts[t]

\* g groups, then suffix number s (0: none); `::` after the first m items
\* (m = -1: no `::`); then tail number t.
StructuredInput(g, s, m, t) == WideInput(g, s, m, t, 0)

StructuredInputs ==
    { StructuredInput(q[1], q[2], q[3], q[4]) :
        q \in { r \in (0..MaxGroups) \X (0..Len(SuffixTexts)) \X (-1..(MaxGroups + 1))
                      \X (1..Len(TailTexts)) :
                  r[3] <= r[1] + (IF r[2] = 0 THEN 0 ELSE 1) } }

\* The structured inputs without a suffix or with the first one, with one
\* group widened.
WideInputs ==
    { WideInput(q[1], q[2], q[3], q[4], q[5]) :
        q \in { r \in (1..MaxGroups) \X (0..1) \X (-1..(MaxGroups + 1))
                      \X (1..Len(TailTexts)) \X ((0 - MaxGroups)..MaxGroups) :
                  /\ r[3] <= r[1] + r[2]
                  /\ r[5] /= 0
                  /\ r[5] <= r[1]
                  /\ 0 - r[5] <= r[1] } }

Inputs == ShortStrings \cup StructuredInputs \cup WideInputs

----------------------------------------------------------------------------
(* The state machine *)

\* Ipv6Address::to_string up to the call of write: s = String::with_capacity(40),
\* self.formatter(&mut s).rfc_5952()
Init ==
    /\ pc = "fmt"
    /\ ip \in AddressValues
    /\ formatter = rfc_5952(new(hextets(ip)))
    /\ writer = String.text
    /\ parser = parse_entry(<< >>)
    /\ result = NoResult
    /\ first = << >>
    /\ round = 1
    /\ sink = [calls |-> String.calls, rejects |-> String.rejects]
    /\ fmt_result = "None"
    /\ call = <<"rfc_5952">>
    /\ mask = NoMask
    /\ scoped = NoScope

\* the writer W that the variables writer and sink describe
Writer == [text |-> writer, calls |-> sink.calls, rejects |-> sink.rejects]

\* Ipv6Formatter::write into the String, and .expect("string formatting failed?!")
Write ==
    /\ pc = "fmt"
    /\ LET r == write(formatter, Writer)
       IN  /\ writer' = r.w.text
           /\ sink' = [sink EXCEPT !.calls = r.w.calls]
           /\ fmt_result' = r.res
           /\ pc' = IF r.res = "Ok" THEN "written" ELSE "panic"
    /\ call' = <<"write">>
    /\ UNCHANGED <<ip, formatter, parser, result, first, round, mask, scoped>>

\* Ipv6Address::from_str on the string written: s.as_bytes(), the call of parse
FromStr ==
    /\ pc = "written"
    /\ round = 1
    /\ parser' = parse_entry(writer)
    /\ pc' = "parse"
    /\ UNCHANGED <<ip, formatter, writer, result, first, round, sink, fmt_result, call, mask, scoped>>

\* parse goes where r.ctl says; a return of parse is the return of from_str
Continue(r) ==
    /\ parser' = r.p
    /\ pc' = IF r.ctl \in {"ok", "err"} THEN "done" ELSE r.ctl
    /\ result' = IF r.ctl \in {"ok", "err"} THEN from_str_result(r.ctl, r.p) ELSE result
    /\ UNCHANGED <<ip, formatter, writer, first, round, sink, fmt_result, call, mask, scoped>>

ParseEnter == pc = "parse" /\ Continue(parse_enter(parser))

ParseLoop == pc = "loop" /\ Continue(loop_body(parser))

ParseExit == pc = "exit" /\ Continue(parse_exit(parser))

\* to_string of the address that from_str returned, up to the call of write
Reformat ==
    /\ pc = "done"
    /\ round = 1
    /\ result.tag = "Ok"
    /\ ip' = result.addr
    /\ formatter' = rfc_5952(new(hextets(result.addr)))
    /\ first' = writer
    /\ writer' = String.text
    /\ sink' = [calls |-> String.calls, rejects |-> String.rejects]
    /\ fmt_result' = "None"
    /\ call' = <<"rfc_5952">>
    /\ round' = 2
    /\ pc' = "fmt"
    /\ UNCHANGED <<parser, result, mask, scoped>>

Next == Write \/ FromStr \/ ParseEnter \/ ParseLoop \/ ParseExit \/ Reformat

\* format, parse what was written, format what was parsed
Spec == Init /\ [][Next]_vars

\* Ipv6Address::formatter(&mut writer): a new formatter on the groups of the
\* address and a writer that holds nothing yet
InitFormat ==
    /\ pc = "build"
    /\ ip \in FormatValues
    /\ formatter = new(hextets(ip))
    /\ writer = << >>
    /\ parser = parse_entry(<< >>)
    /\ result = NoResult
    /\ first = << >>
    /\ round = 1
    /\ sink = [calls |-> 0, rejects |-> None]
    /\ fmt_result = "None"
    /\ call = <<"new">>
    /\ mask = NoMask
    /\ scoped = NoScope

\* a builder call: the formatter is consumed and returned
Builder(name, f) ==
    /\ pc = "build"
    /\ formatter' = f
    /\ call' = name
    /\ UNCHANGED <<pc, ip, writer, parser, result, first, round, sink, fmt_result, mask, scoped>>

Ellipsis == \E flag \in BOOLEAN : Builder(<<"ellipsis", flag>>, set_ellipsis(formatter, flag))

LeadingZeros ==
    \E flag \in BOOLEAN : Builder(<<"leading_zeros", flag>>, set_leading_zeros(formatter, flag))

UpperCase ==
    \E flag \in BOOLEAN : Builder(<<"upper_case", flag>>, set_upper_case(formatter, flag))

Rfc5952 == Builder(<<"rfc_5952">>, rfc_5952(formatter))

Expanded == Builder(<<"expanded">>, expanded(formatter))

\* Ipv6Formatter::write into a writer that rejects its k-th write call
\* (k = 0: a writer that rejects none)
WriteSink ==
    /\ pc = "build"
    /\ \E k \in 0..MaxRejected :
         LET rejects == IF k = 0 THEN None ELSE Some(k)
             r == write(formatter, [text |-> writer, calls |-> sink.calls, rejects |-> rejects])
         IN  /\ writer' = r.w.text
             /\ sink' = [calls |-> r.w.calls, rejects |-> rejects]
             /\ fmt_result' = r.res
    /\ pc' = "written"
    /\ call' = <<"write">>
    /\ UNCHANGED <<ip, formatter, parser, result, first, round, mask, scoped>>

NextFormat == Ellipsis \/ LeadingZeros \/ UpperCase \/ Rfc5952 \/ Expanded \/ WriteSink

\* configure a formatter by builder calls, then write
SpecFormat == InitFormat /\ [][NextFormat]_vars

\* Ipv6Address::formatter(&mut s).ellipsis(e).leading_zeros(z).upper_case(u)
\* on an empty String, up to the call of write: one of the 8 configurations
InitConfigured ==
    /\ pc = "fmt"
    /\ ip \in FormatValues
    /\ formatter \in
          { set_upper_case(set_leading_zeros(set_ellipsis(new(hextets(ip)), e), z), u) :
              e \in BOOLEAN, z \in BOOLEAN, u \in BOOLEAN }
    /\ writer = String.text
    /\ parser = parse_entry(<< >>)
    /\ result = NoResult
    /\ first = << >>
    /\ round = 1
    /\ sink = [calls |-> String.calls, rejects |-> String.rejects]
    /\ fmt_result = "None"
    /\ call = <<"upper_case", formatter.upper_case>>
    /\ mask = NoMask
    /\ scoped = NoScope

NextConfigured == Write \/ FromStr \/ ParseEnter \/ ParseLoop \/ ParseExit

\* write with any configuration into a String, then from_str on the String
SpecConfigured == InitConfigured /\ [][NextConfigured]_vars

\* Ipv6Address::from_str on a string of Inputs, here the variable writer:
\* s.as_bytes(), the call of parse
InitParse ==
    /\ pc = "parse"
    /\ ip = pack(Zeros8)
    /\ formatter = new(Zeros8)
    /\ writer \in Inputs
    /\ parser = parse_entry(writer)
    /\ result = NoResult
    /\ first = << >>
    /\ round = 1
    /\ sink = [calls |-> String.calls, rejects |-> String.rejects]
    /\ fmt_result = "None"
    /\ call = <<"from_str">>
    /\ mask = NoMask
    /\ scoped = NoScope

NextParse == ParseEnter \/ ParseLoop \/ ParseExit

SpecParse == InitParse /\ [][NextParse]_vars

\* Bits on each side of the end of a prefix that the integers given to
\* try_from vary in every combination.
MaskWindow == 2

\* the integer whose n most significant bits are 1 and whose other bits are 0
PrefixBits(n, width) == [i \in 1..width |-> IF i <= n THEN 1 ELSE 0]

\* b with the bits at the positions of J flipped, as a tuple
Flip(b, J) == SubSeq([i \in 1..Len(b) |-> IF i \in J THEN 1 - b[i] ELSE b[i]], 1, Len(b))

\* The integers given to try_from: every prefix, with any one bit flipped or
\* with any of the bits around the end of the prefix flipped.
MaskCandidates(width) ==
    UNION { { Flip(PrefixBits(n, width), J) :
                J \in { {j} : j \in 1..width }
                       \cup SUBSET (((n - MaskWindow + 1)..(n + MaskWindow)) \cap (1..width)) } :
            n \in 0..width }

\* a mask of one of the two families is about to be made
InitMask ==
    /\ pc = "mask"
    /\ ip = pack(Zeros8)
    /\ formatter = new(Zeros8)
    /\ writer = << >>
    /\ parser = parse_entry(<< >>)
    /\ result = NoResult
    /\ first = << >>
    /\ round = 1
    /\ sink = [calls |-> 0, rejects |-> None]
    /\ fmt_result = "None"
    /\ call = <<"none">>
    /\ mask \in { [NoMask EXCEPT !.width = w] : w \in {IPV4_MAX_PREFIXLEN, IPV6_MAX_PREFIXLEN} }
    /\ scoped = NoScope

\* from_prefixlen(n) for a u8 n
FromPrefixlen ==
    /\ pc = "mask"
    /\ \E n \in 0..255 :
         mask' = [mask EXCEPT !.op = "from_prefixlen", !.n = n,
                              !.res = from_prefixlen(n, mask.width)]
    /\ pc' = "made"
    /\ UNCHANGED <<ip, formatter, writer, parser, result, first, round, sink, fmt_result, call, scoped>>

\* try_from(value) for an integer of the family's width
TryFrom ==
    /\ pc = "mask"
    /\ \E v \in MaskCandidates(mask.width) :
         mask' = [mask EXCEPT !.op = "try_from", !.value = v, !.res = try_from(v)]
    /\ pc' = "made"
    /\ UNCHANGED <<ip, formatter, writer, parser, result, first, round, sink, fmt_result, call, scoped>>

\* prefixlen() of the mask made
Prefixlen ==
    /\ pc = "made"
    /\ mask.res.tag = "Ok"
    /\ mask' = [mask EXCEPT !.len = Some(prefixlen(mask.res.value))]
    /\ pc' = "measured"
    /\ UNCHANGED <<ip, formatter, writer, parser, result, first, round, sink, fmt_result, call, scoped>>

NextMask == FromPrefixlen \/ TryFrom \/ Prefixlen

SpecMask == InitMask /\ [][NextMask]_vars

\* Number of values that the first octet, the flags nibble and the last octet
\* of the addresses classified each range over.
ScopeChoices == 2

FirstOctets == <<255, 0, 254>>

FlagNibbles == <<0, 1, 15>>

LastOctets == <<1, 2, 255>>

\* The addresses classified: every value of the 4-bit scope field, with the
\* octet before it, the nibble beside it and the last octet varied; ff01::1
\* and ff02::1 are among them.
ScopeValues ==
    { [k \in 1..16 |-> IF k = 1 THEN FirstOctets[q[1]]
                       ELSE IF k = 2 THEN FlagNibbles[q[2]] * 16 + q[3]
                       ELSE IF k = 16 THEN LastOctets[q[4]]
                       ELSE 0] :
        q \in (1..ScopeChoices) \X (1..ScopeChoices) \X (0..15) \X (1..ScopeChoices) }

\* The scopes whose code is in 0..15.
Scopes ==
    {InterfaceLocal, LinkLocal, AdminLocal, SiteLocal, OrganizationLocal, Global}
        \cup { Reserved(n) : n \in {0, 3, 15} }
        \cup { Unassigned(n) : n \in {6, 7} \cup 9..13 }

\* an Ipv6Address on which neither scope nor set_scope was called
InitScope ==
    /\ pc = "addr"
    /\ ip \in ScopeValues
    /\ formatter = new(Zeros8)
    /\ writer = << >>
    /\ parser = parse_entry(<< >>)
    /\ result = NoResult
    /\ first = << >>
    /\ round = 1
    /\ sink = [calls |-> 0, rejects |-> None]
    /\ fmt_result = "None"
    /\ call = <<"none">>
    /\ mask = NoMask
    /\ scoped = NoScope

\* a.set_scope(s)
SetScope ==
    /\ pc = "addr"
    /\ \E s \in Scopes :
         /\ ip' = set_scope(ip, s)
         /\ scoped' = [scoped EXCEPT !.set = Some(s), !.before = ip]
    /\ pc' = "set"
    /\ UNCHANGED <<formatter, writer, parser, result, first, round, sink, fmt_result, call, mask>>

\* a.scope(), on the address as it was made or after set_scope
Scope ==
    /\ pc \in {"addr", "set"}
    /\ scoped' = [scoped EXCEPT !.got = Some(scope(ip))]
    /\ pc' = IF scope(ip) = <<"unreachable">> THEN "panic" ELSE "read"
    /\ UNCHANGED <<ip, formatter, writer, parser, result, first, round, sink, fmt_result, call,
                   mask>>

NextScope == SetScope \/ Scope

SpecScope == InitScope /\ [][NextScope]_vars

----------------------------------------------------------------------------
(* What a string and a group array say, read without the parser or the formatter *)

\* the positions k where s[k], s[k + 1] are two colons
Markers(s) == { k \in 1..(Len(s) - 1) : s[k] = ":" /\ s[k + 1] = ":" }

HasMarker(s) == Markers(s) /= {}

AllZero(h, a, b) == \A i \in a..b : At(h, i) = 0

\* the maximal runs <<a, b>> of zero groups of h
ZeroRuns(h) ==
    { r \in (0..7) \X (0..7) :
        /\ r[1] <= r[2]
        /\ AllZero(h, r[1], r[2])
        /\ (r[1] = 0 \/ At(h, r[1] - 1) /= 0)
        /\ (r[2] = 7 \/ At(h, r[2] + 1) /= 0) }

RunLen(r) == r[2] - r[1] + 1

LongestRuns(h) == { r \in ZeroRuns(h) : \A q \in ZeroRuns(h) : RunLen(q) <= RunLen(r) }

----------------------------------------------------------------------------
(* Claims about the formatter and the round trip, under Spec *)

\* C1: a value formatted with the default configuration and parsed by
\* from_str comes back: the parse succeeds and returns the value formatted.
RoundTrip == (pc = "done" /\ round = 1) => result = Ok(ip)

\* C2: when the formatter has written `::`, the groups start..=end that
\* longest_zero_sequence returned, which are the groups left out, are all zero.
ElidedGroupsAreZero ==
    (pc = "written" /\ HasMarker(writer)) =>
        LET seq == longest_zero_sequence(formatter.hextets)
        IN  IsSome(seq) /\ AllZero(formatter.hextets, Unwrap(seq)[1], Unwrap(seq)[2])

\* C3: with elision enabled, the groups that `::` replaces are a maximal run
\* of zero groups and no run of zero groups is strictly longer.
LongestRunElided ==
    (pc = "written" /\ formatter.ellipsis /\ HasMarker(writer)) =>
        LET seq == longest_zero_sequence(formatter.hextets)
        IN  IsSome(seq) /\ Unwrap(seq) \in LongestRuns(formatter.hextets)

\* C4: a value with two or more longest zero runs of the same length (of two
\* groups or more) is written with the leftmost of them replaced by `::` and
\* every other group explicit.
LeftmostLongestElided ==
    LET h == formatter.hextets
        longest == LongestRuns(h)
    IN  (pc = "written" /\ formatter.ellipsis /\ Cardinality(longest) >= 2
            /\ \A r \in longest : RunLen(r) >= 2) =>
            LET l == CHOOSE r \in longest : \A q \in longest : r[1] <= q[1]
            IN  /\ longest_zero_sequence(h) = Some(l)
                /\ writer = write_hextets(formatter, String, 0, l[1] - 1).w.text
                            \o <<":", ":">>
                            \o write_hextets(formatter, String, l[2] + 1, 7).w.text

\* C5: the string written for a value is parsed successfully, and formatting
\* the parsed value writes the same string again.
Idempotence ==
    /\ (pc = "done" /\ round = 1) => result.tag = "Ok"
    /\ (pc = "written" /\ round = 2) => writer = first

\* C5 witness: the second formatting has written a string with `::` again.
IdempotenceWitness ==
    pc = "written" /\ round = 2 /\ HasMarker(first) /\ writer = first /\ Len(writer) > 2

\* the default formatting of every value, and what from_str makes of it
Canonical == { <<to_string(w), from_str(to_string(w))>> : w \in AddressValues }

\* what from_str makes of the canonical strings
CanonicalResults == { c[2] : c \in Canonical }

\* C6: two values whose canonical strings parse to the same result have the
\* same canonical string.  The string written and the result parsed here are
\* one of the pairs of Canonical, and no two pairs of Canonical share their
\* result: there are as many results as pairs.
CanonicalUnique ==
    (pc = "done" /\ round = 1) =>
        /\ <<writer, result>> \in Canonical
        /\ Cardinality(CanonicalResults) = Cardinality(Canonical)

\* C6 witness: the string parsed here is the canonical string of another
\* value as well, one that differs from the value formatted.
CanonicalUniqueWitness ==
    /\ pc = "done" /\ round = 1 /\ result.tag = "Ok"
    /\ result.addr /= ip
    /\ to_string(result.addr) = writer

----------------------------------------------------------------------------
(* What an input string says, read without the parser *)

Contains(s, c) == \E k \in 1..Len(s) : s[k] = c

\* the fields of s between the separators c
RECURSIVE Split(_, _)
Split(s, c) ==
    IF ~Contains(s, c) THEN <<s>>
    ELSE LET k == CHOOSE j \in 1..Len(s) : s[j] = c /\ \A i \in 1..(j - 1) : s[i] /= c
         IN  <<SubSeq(s, 1, k - 1)>> \o Split(SubSeq(s, k + 1, Len(s)), c)

\* the number of groups written in s: the non-empty fields between colons,
\* a field with a dot standing for two groups
GroupCount(s) ==
    LET fields == Split(s, ":")
    IN  Cardinality({ k \in 1..Len(fields) : fields[k] /= << >> })
        + Cardinality({ k \in 1..Len(fields) : Contains(fields[k], ".") })

\* what follows the last colon of s
LastField(s) ==
    LET fields == Split(s, ":")
    IN  fields[Len(fields)]

DigitValue(c) == CHOOSE d \in 0..9 : DecimalChars[d + 1] = c

RECURSIVE Decimal(_)
Decimal(t) ==
    IF t = << >> THEN 0
    ELSE 10 * Decimal(SubSeq(t, 1, Len(t) - 1)) + DigitValue(t[Len(t)])

\* one to three decimal digits of value 0..255
IsOctetText(t) ==
    /\ Len(t) \in 1..3
    /\ \A k \in 1..Len(t) : Contains(DecimalChars, t[k])
    /\ Decimal(t) <= 255

\* four octets separated by three dots
IsDottedQuad(t) ==
    LET parts == Split(t, ".")
    IN  Len(parts) = 4 /\ \A k \in 1..4 : IsOctetText(parts[k])

Accepted == pc = "done" /\ result.tag = "Ok"

Rejected == pc = "done" /\ result.tag = "Err"

----------------------------------------------------------------------------
(* Claims about the parser, under SpecParse *)

\* C7: an input with a second `::` (two positions where a colon follows a
\* colon, so also `:::`) is rejected.
SecondMarkerRejected ==
    (pc = "done" /\ Cardinality(Markers(parser.bytes)) >= 2) => result.tag = "Err"

\* C7 witness: the parser, with an ellipsis recorded and a group read, has
\* stopped with an error at an empty group before a colon.
SecondMarkerWitness ==
    /\ Rejected
    /\ IsSome(parser.ellipsis)
    /\ parser.hextet_index >= 1
    /\ parser.offset < Len(parser.bytes)
    /\ At(parser.bytes, parser.offset) = ":"
    /\ At(parser.bytes, parser.offset - 1) = ":"

\* C8: an accepted input has either eight groups and no `::`, or fewer than
\* eight groups and a `::`; and, but for the input `::` that returns before the
\* loop, these are the parser's hextet_index and ellipsis.
GroupCountRule ==
    Accepted =>
        LET n == GroupCount(parser.bytes)
            m == HasMarker(parser.bytes)
        IN  /\ (n = 8 /\ ~m) \/ (n < 8 /\ m)
            /\ Len(parser.bytes) > 2 =>
                   (parser.hextet_index = n /\ IsSome(parser.ellipsis) = m)

\* C8 witness: an input consumed to its end with eight groups read and an
\* ellipsis recorded has been rejected.
GroupCountWitness ==
    /\ Rejected
    /\ parser.offset = Len(parser.bytes)
    /\ parser.hextet_index = 8
    /\ IsSome(parser.ellipsis)
    /\ GroupCount(parser.bytes) = 8

\* C9: in the result of an accepted input that ends with a dotted-decimal
\* suffix a.b.c.d, group 6 is a * 256 + b and group 7 is c * 256 + d.
SuffixInLastTwoGroups ==
    (Accepted /\ IsDottedQuad(LastField(parser.bytes))) =>
        LET parts == Split(LastField(parser.bytes), ".")
        IN  /\ hextet(result.addr, 6) = Decimal(parts[1]) * 256 + Decimal(parts[2])
            /\ hextet(result.addr, 7) = Decimal(parts[3]) * 256 + Decimal(parts[4])

\* C9 witness: an accepted input with a group, then `::`, then a suffix whose
\* first two octets are not both zero.
SuffixWitness ==
    /\ Accepted
    /\ IsDottedQuad(LastField(parser.bytes))
    /\ IsSome(parser.ellipsis)
    /\ Unwrap(parser.ellipsis) >= 1
    /\ hextet(result.addr, 0) /= 0
    /\ hextet(result.addr, 6) /= 0

\* C10: an accepted input that contains a dot ends with four decimal octets
\* 0..255 separated by dots, and they are all that follows its last colon.
SuffixWellFormed ==
    (Accepted /\ Contains(parser.bytes, ".")) => IsDottedQuad(LastField(parser.bytes))

\* C10 witness: the parser, after an ellipsis, has stopped with an error at
\* the dot that follows a group, the text from that group on being four
\* decimal numbers of which one is above 255.
SuffixMalformedWitness ==
    /\ Rejected
    /\ IsSome(parser.ellipsis)
    /\ parser.hextet_index >= 1
    /\ parser.offset < Len(parser.bytes)
    /\ At(parser.bytes, parser.offset) = "."
    /\ LET parts == Split(LastField(parser.bytes), ".")
       IN  /\ Len(parts) = 4
           /\ \A k \in 1..4 :
                 /\ parts[k] /= << >>
                 /\ \A j \in 1..Len(parts[k]) : Contains(DecimalChars, parts[k][j])
           /\ \E k \in 1..4 : ~IsOctetText(parts[k])

----------------------------------------------------------------------------
(* Hexadecimal groups of an input string, read without the parser *)

HexChars == <<"0", "1", "2", "3", "4", "5", "6", "7", "8", "9",
              "a", "b", "c", "d", "e", "f">>

HexCapitals == <<"0", "1", "2", "3", "4", "5", "6", "7", "8", "9",
                 "A", "B", "C", "D", "E", "F">>

IsHexChar(c) == Contains(HexChars, c) \/ Contains(HexCapitals, c)

HexCharValue(c) == CHOOSE d \in 0..15 : HexChars[d + 1] = c \/ HexCapitals[d + 1] = c

RECURSIVE Hex(_)
Hex(t) ==
    IF t = << >> THEN 0
    ELSE 16 * Hex(SubSeq(t, 1, Len(t) - 1)) + HexCharValue(t[Len(t)])

\* a non-empty field of hexadecimal digits only
IsHexText(t) == t /= << >> /\ \A k \in 1..Len(t) : IsHexChar(t[k])

\* five hexadecimal digits in a row somewhere in s
HasFiveHexDigits(s) ==
    \E k \in 1..(Len(s) - 4) : \A j \in 0..4 : IsHexChar(s[k + j])

\* the number of groups that the fields after field k stand for
GroupsAfter(fields, k) ==
    (Len(fields) - k) + (IF Contains(fields[Len(fields)], ".") THEN 1 ELSE 0)

\* C11: an input with five hexadecimal digits in a row is rejected; and in an
\* accepted input every field of hexadecimal digits has at most four of them
\* and its group of the result, counted from the front before `::` and from
\* the back after it, has the value of these digits.
OverflowRejected ==
    /\ (pc = "done" /\ HasFiveHexDigits(parser.bytes)) => result.tag = "Err"
    /\ Accepted =>
          LET fields == Split(parser.bytes, ":")
          IN  \A k \in 1..Len(fields) :
                IsHexText(fields[k]) =>
                  /\ Len(fields[k]) <= 4
                  /\ (\A j \in 1..(k - 1) : fields[j] /= << >>) =>
                         hextet(result.addr, k - 1) = Hex(fields[k])
                  /\ (\A j \in (k + 1)..Len(fields) : fields[j] /= << >>) =>
                         hextet(result.addr, 7 - GroupsAfter(fields, k)) = Hex(fields[k])

\* C11 witness: eight groups read, no ellipsis, and the one byte left is a
\* fifth hexadecimal digit of the eighth group: the input is rejected.
OverflowWitness ==
    /\ Rejected
    /\ parser.hextet_index = 8
    /\ ~IsSome(parser.ellipsis)
    /\ parser.offset + 1 = Len(parser.bytes)
    /\ \A j \in 0..4 : IsHexChar(At(parser.bytes, parser.offset - j))

\* C12: from_str returns either an address, a full 128-bit value, or
\* ParsingFailed with the whole input string as it was given and no value.
ParsingFailedCarriesInput ==
    pc = "done" =>
        \/ result.tag = "Ok" /\ Len(result.addr) = 16 /\ result.input = << >>
        \/ result.tag = "Err" /\ result.input = writer /\ result.addr = << >>

\* C12 witness: an input rejected after two groups or more had been read and
\* stored, part of it consumed: the error carries the input.
ParsingFailedWitness ==
    /\ Rejected
    /\ parser.hextet_index >= 2
    /\ parser.address /= Zeros8
    /\ parser.offset > 0
    /\ result.input = writer
    /\ Len(writer) > parser.offset

----------------------------------------------------------------------------
(* Claims about the configured formatter and its sink, under SpecFormat *)

\* the sink has rejected a call: it has received the call it rejects
SinkRejected == IsSome(sink.rejects) /\ sink.calls >= Unwrap(sink.rejects)

\* C13: write returns Ok when the sink has rejected no call, whatever the
\* value and the configuration; when the sink has rejected a call, write
\* returns the error, and the rejected call is the last one the sink received.
SinkFailurePropagates ==
    pc = "written" =>
        /\ ~SinkRejected => fmt_result = "Ok"
        /\ SinkRejected => (fmt_result = "Err" /\ sink.calls = Unwrap(sink.rejects))

\* C13 witness: the sink has rejected the write of a group that follows a
\* colon, after it had accepted two calls or more.
SinkFailureWitness ==
    /\ pc = "written"
    /\ fmt_result = "Err"
    /\ sink.calls >= 3
    /\ writer /= << >>
    /\ writer[Len(writer)] = ":"
    /\ ~HasMarker(writer)

\* c with a letter A-F replaced by the letter a-f
LowerCase(c) ==
    IF \E d \in 11..16 : HexCapitals[d] = c
    THEN HexChars[CHOOSE d \in 11..16 : HexCapitals[d] = c]
    ELSE c

\* c with a letter a-f replaced by the letter A-F
UpperCaseOf(c) ==
    IF \E d \in 11..16 : HexChars[d] = c
    THEN HexCapitals[CHOOSE d \in 11..16 : HexChars[d] = c]
    ELSE c

\* the text written to a String with upper_case set to flag, the rest as configured
TextWithCase(flag) == write(set_upper_case(formatter, flag), String).w.text

\* C14: the text written is, character by character, the text of the same
\* value and the same ellipsis and leading_zeros with upper_case = false in
\* which every letter a-f is the capital A-F when upper_case is set, and is
\* that text itself when it is not; and that text has no capital.
UpperCaseOnlyChangesCase ==
    (pc = "written" /\ fmt_result = "Ok") =>
        LET lower == TextWithCase(FALSE)
        IN  /\ Len(writer) = Len(lower)
            /\ \A k \in 1..Len(lower) :
                  /\ LowerCase(lower[k]) = lower[k]
                  /\ writer[k] = IF formatter.upper_case THEN UpperCaseOf(lower[k])
                                                         ELSE lower[k]

\* C14 witness: a text written with upper_case and leading_zeros set that has
\* a capital, a `::` and a padded group.
UpperCaseWitness ==
    /\ pc = "written" /\ fmt_result = "Ok"
    /\ formatter.upper_case /\ formatter.leading_zeros /\ formatter.ellipsis
    /\ HasMarker(writer)
    /\ Contains(writer, "F")
    /\ \E k \in 1..(Len(writer) - 1) : writer[k] = "0" /\ writer[k + 1] = "0"
    /\ writer /= TextWithCase(FALSE)

\* C15: a new formatter has ellipsis = true, leading_zeros = false and
\* upper_case = false; and every builder call leaves the groups as they are,
\* ellipsis(b), leading_zeros(b) and upper_case(b) set their option to b and
\* leave the other two, rfc_5952() sets the three defaults, expanded() sets
\* ellipsis = false and leading_zeros = true and leaves upper_case.
BuilderCalls ==
    /\ [](call = <<"new">> =>
            (formatter.ellipsis /\ ~formatter.leading_zeros /\ ~formatter.upper_case
                /\ formatter.hextets = hextets(ip)))
    /\ [][pc' = "build" =>
            /\ formatter'.hextets = formatter.hextets
            /\ call'[1] = "ellipsis" =>
                  /\ formatter'.ellipsis = call'[2]
                  /\ formatter'.leading_zeros = formatter.leading_zeros
                  /\ formatter'.upper_case = formatter.upper_case
            /\ call'[1] = "leading_zeros" =>
                  /\ formatter'.ellipsis = formatter.ellipsis
                  /\ formatter'.leading_zeros = call'[2]
                  /\ formatter'.upper_case = formatter.upper_case
            /\ call'[1] = "upper_case" =>
                  /\ formatter'.ellipsis = formatter.ellipsis
                  /\ formatter'.leading_zeros = formatter.leading_zeros
                  /\ formatter'.upper_case = call'[2]
            /\ call'[1] = "rfc_5952" =>
                  /\ formatter'.ellipsis
                  /\ ~formatter'.leading_zeros
                  /\ ~formatter'.upper_case
            /\ call'[1] = "expanded" =>
                  /\ ~formatter'.ellipsis
                  /\ formatter'.leading_zeros
                  /\ formatter'.upper_case = formatter.upper_case]_vars

\* C15 witness: expanded() called on a formatter with upper_case set.
BuilderCallsWitness ==
    /\ pc = "build"
    /\ call = <<"expanded">>
    /\ formatter.upper_case /\ ~formatter.ellipsis /\ formatter.leading_zeros
    /\ formatter.hextets = hextets(ip)

\* the text written is the most expanded form: no ellipsis, leading zeros
MostExpanded ==
    pc = "written" /\ fmt_result = "Ok" /\ ~formatter.ellipsis /\ formatter.leading_zeros

GroupsText(lo, hi) == write_hextets(formatter, String, lo, hi).w.text

\* C18: with elision enabled, a run of two zero groups or more that ends at
\* group 7 and is strictly longer than every other zero run is the run that
\* `::` replaces: the text is the groups before it, then `::`.
TrailingRunElided ==
    (pc = "written" /\ fmt_result = "Ok" /\ formatter.ellipsis) =>
        \A r \in ZeroRuns(formatter.hextets) :
            (/\ r[2] = 7
             /\ RunLen(r) >= 2
             /\ \A q \in ZeroRuns(formatter.hextets) \ {r} : RunLen(q) < RunLen(r)) =>
                /\ longest_zero_sequence(formatter.hextets) = Some(r)
                /\ writer = GroupsText(0, r[1] - 1) \o <<":", ":">>

\* C19: with elision enabled, when no group is zero the text is the eight
\* groups joined by colons, without `::`; when a group is zero the text has
\* exactly one `::`, with groups joined by colons before it and after it.
MarkerIffZeroRun ==
    (pc = "written" /\ fmt_result = "Ok" /\ formatter.ellipsis) =>
        IF \A i \in 0..7 : At(formatter.hextets, i) /= 0
        THEN writer = GroupsText(0, 7) /\ ~HasMarker(writer)
        ELSE /\ Cardinality(Markers(writer)) = 1
             /\ \E a \in 0..7 : \E b \in a..7 :
                   writer = GroupsText(0, a - 1) \o <<":", ":">> \o GroupsText(b + 1, 7)

----------------------------------------------------------------------------
(* Claims about masks, under SpecMask *)

\* b has its ones first and its zeros last: no 1 follows a 0
OnesThenZeros(b) == \A i \in 1..(Len(b) - 1) : b[i] = 0 => b[i + 1] = 0

\* C17: from_prefixlen(n) returns Ok exactly when n is at most the width of
\* the family (128, or 32), InvalidMask otherwise; the mask it returns has its
\* n most significant bits 1 and the others 0, and prefixlen() of it is n;
\* try_from(value) returns Ok(value) exactly when value is such an integer for
\* some n, and InvalidMask for every other integer.
MaskValidity ==
    pc \in {"made", "measured"} =>
        /\ mask.op = "from_prefixlen" =>
              /\ (mask.res.tag = "Ok") = (mask.n <= mask.width)
              /\ mask.res.tag = "Ok" => mask.res.value = PrefixBits(mask.n, mask.width)
              /\ mask.res.tag /= "Ok" => mask.res = InvalidMask
              /\ IsSome(mask.len) => Unwrap(mask.len) = mask.n
        /\ mask.op = "try_from" =>
              /\ (mask.res.tag = "Ok") = OnesThenZeros(mask.value)
              /\ mask.res.tag = "Ok" => mask.res.value = mask.value
              /\ mask.res.tag /= "Ok" => mask.res = InvalidMask
              /\ IsSome(mask.len) => mask.value = PrefixBits(Unwrap(mask.len), mask.width)

\* C17 witness: a 128-bit mask made by from_prefixlen(n) for an n that is
\* neither 0 nor 128 nor a multiple of 8, and measured by prefixlen().
MaskValidityWitness ==
    /\ pc = "measured"
    /\ mask.op = "from_prefixlen"
    /\ mask.width = IPV6_MAX_PREFIXLEN
    /\ mask.n % 8 = 5
    /\ mask.len = Some(mask.n)
    /\ mask.res.value[mask.n] = 1
    /\ mask.res.value[mask.n + 1] = 0

----------------------------------------------------------------------------
(* The expansion of `::`, under SpecParse *)

\* the groups a field of an input stands for: two for a dotted-decimal
\* suffix, one for hexadecimal digits
FieldGroups(field) ==
    IF Contains(field, ".")
    THEN LET parts == Split(field, ".")
         IN  <<Decimal(parts[1]) * 256 + Decimal(parts[2]),
               Decimal(parts[3]) * 256 + Decimal(parts[4])>>
    ELSE <<Hex(field)>>

\* the groups of the fields from..to, in order
RECURSIVE FieldsGroups(_, _, _)
FieldsGroups(fields, from, to) ==
    IF from > to THEN << >>
    ELSE FieldsGroups(fields, from, to - 1) \o FieldGroups(fields[to])

\* C20: the groups of the result of an accepted input with `::` are the
\* groups written before `::` in order, then zero groups up to eight groups
\* in all, then the groups written after `::` in order; fewer than eight
\* groups are written; group 0 is the most significant 16 bits of the value.
EllipsisExpansion ==
    (Accepted /\ HasMarker(parser.bytes)) =>
        LET fields == Split(parser.bytes, ":")
            e == CHOOSE k \in 1..Len(fields) :
                     fields[k] = << >> /\ \A j \in 1..(k - 1) : fields[j] /= << >>
            l == CHOOSE k \in 1..Len(fields) :
                     fields[k] = << >> /\ \A j \in (k + 1)..Len(fields) : fields[j] /= << >>
            left == FieldsGroups(fields, 1, e - 1)
            right == FieldsGroups(fields, l + 1, Len(fields))
            k == Len(left) + Len(right)
        IN  /\ k < 8
            /\ \A i \in 0..7 :
                  hextet(result.addr, i) =
                      IF i < Len(left) THEN left[i + 1]
                      ELSE IF i < 8 - Len(right) THEN 0
                      ELSE right[i - (8 - Len(right)) + 1]

\* C20 witness: an accepted input of hexadecimal groups on both sides of
\* `::`, two or more after it and two or more zero groups for it, the first
\* and the last two groups of the result not zero.
EllipsisExpansionWitness ==
    /\ Accepted
    /\ IsSome(parser.ellipsis)
    /\ Unwrap(parser.ellipsis) >= 1
    /\ parser.hextet_index >= Unwrap(parser.ellipsis) + 2
    /\ parser.hextet_index <= 6
    /\ ~Contains(parser.bytes, ".")
    /\ hextet(result.addr, 0) /= 0
    /\ hextet(result.addr, 6) /= 0
    /\ hextet(result.addr, 7) /= 0

----------------------------------------------------------------------------
(* Colons at the edges, lengths and bytes of an input, under SpecParse *)

\* s starts with a colon that no second colon follows
StartsWithSingleColon(s) == Len(s) >= 1 /\ s[1] = ":" /\ (Len(s) = 1 \/ s[2] /= ":")

\* s ends with a colon that no colon precedes
EndsWithSingleColon(s) ==
    Len(s) >= 1 /\ s[Len(s)] = ":" /\ (Len(s) = 1 \/ s[Len(s) - 1] /= ":")

\* C21: an input that starts with a single colon is rejected before any byte
\* is consumed or any group read; an input that ends with a single colon is
\* rejected; so an accepted input starts and ends with a colon only as part
\* of `::`.
EdgeColonsRejected ==
    pc = "done" =>
        /\ StartsWithSingleColon(parser.bytes) =>
              /\ result.tag = "Err"
              /\ parser.offset = 0
              /\ parser.hextet_index = 0
              /\ ~IsSome(parser.ellipsis)
        /\ EndsWithSingleColon(parser.bytes) => result.tag = "Err"

\* C21 witness: an input with `::`, groups read, and a last byte that is a
\* colon after a group: the parser has consumed it all and rejected it.
EdgeColonsWitness ==
    /\ Rejected
    /\ IsSome(parser.ellipsis)
    /\ parser.hextet_index >= 2
    /\ parser.hextet_index < 8
    /\ parser.offset = Len(parser.bytes)
    /\ EndsWithSingleColon(parser.bytes)
    /\ Cardinality(Markers(parser.bytes)) = 1

\* a byte that belongs to no address: not a hexadecimal digit, a colon or a dot
IsForeignByte(c) == ~(IsHexChar(c) \/ c = ":" \/ c = ".")

\* C22: an input shorter than 2 bytes or longer than 46 bytes is rejected
\* with nothing consumed, no group read and no ellipsis recorded; an input
\* with a byte that is not a hexadecimal digit, a colon or a dot is rejected.
LengthAndBytesChecked ==
    pc = "done" =>
        /\ (Len(parser.bytes) < 2 \/ Len(parser.bytes) > 46) =>
              /\ result.tag = "Err"
              /\ parser.offset = 0
              /\ parser.hextet_index = 0
              /\ parser.address = Zeros8
              /\ ~IsSome(parser.ellipsis)
        /\ (\E k \in 1..Len(parser.bytes) : IsForeignByte(parser.bytes[k])) =>
              result.tag = "Err"

\* C22 witness: an input of 2 to 46 bytes rejected at a byte that belongs to
\* no address, met after a `::` and two groups or more.
LengthAndBytesWitness ==
    /\ Rejected
    /\ Len(parser.bytes) \in 2..46
    /\ IsSome(parser.ellipsis)
    /\ parser.hextet_index >= 2
    /\ parser.offset < Len(parser.bytes)
    /\ IsForeignByte(At(parser.bytes, parser.offset))
    /\ \A k \in 1..parser.offset : ~IsForeignByte(parser.bytes[k])

\* an input longer than 46 bytes, and inputs of 0 and 1 byte, are among Inputs
LongInputRejected ==
    /\ Rejected
    /\ Len(parser.bytes) > 46
    /\ \A k \in 1..Len(parser.bytes) : ~IsForeignByte(parser.bytes[k])

----------------------------------------------------------------------------
(* The indices of the parser, under SpecParse *)

\* the indices index + nb_zeros that the ellipsis shift of parse would write
ShiftTargets(p) ==
    { index + (8 - p.hextet_index) : index \in Unwrap(p.ellipsis)..(p.hextet_index - 1) }

\* C27: in every state of parse, hextet_index is in 0..8, offset is at most
\* the length of the input and every group slot holds a u16; a recorded
\* ellipsis index is at most hextet_index and below 8; where the loop
\* iterates, the slot that the next group is written to is in the array;
\* where the loop is left, the targets of the ellipsis shift are in the
\* array; parse never panics; and an iteration of the loop that is followed
\* by another one has increased offset.
ParserInBounds ==
    /\ [](/\ pc /= "panic"
          /\ parser.hextet_index \in 0..8
          /\ parser.offset \in 0..Len(parser.bytes)
          /\ Len(parser.address) = 8
          /\ \A i \in 0..7 : At(parser.address, i) \in 0..65535
          /\ IsSome(parser.ellipsis) =>
                (Unwrap(parser.ellipsis) <= parser.hextet_index /\ Unwrap(parser.ellipsis) < 8)
          /\ pc = "loop" => parser.hextet_index <= 7
          /\ (pc = "exit" /\ parser.hextet_index < 8 /\ IsSome(parser.ellipsis)) =>
                ShiftTargets(parser) \subseteq 0..7)
    /\ [][(pc = "loop" /\ pc' = "loop") => parser'.offset > parser.offset]_vars

\* C27 witness: the loop was left after the eighth group with input left, a
\* colon and a ninth group: one more iteration would write a ninth slot.
ParserInBoundsWitness ==
    /\ pc = "exit"
    /\ parser.hextet_index = 8
    /\ parser.offset + 2 <= Len(parser.bytes)
    /\ At(parser.bytes, parser.offset) = ":"
    /\ IsHexChar(At(parser.bytes, parser.offset + 1))

----------------------------------------------------------------------------
(* Claims about the text written with each configuration, under SpecConfigured *)

\* the text was written, by a formatter of any configuration
Written == pc = "written" /\ fmt_result = "Ok"

\* C23: every group written, a non-empty field between colons, is made of
\* hexadecimal digits: four of them when leading_zeros is set, otherwise one
\* to four with no zero in front unless it is the only digit; and their value
\* is the value of the group: of group k - 1 for the k-th field before `::`,
\* of the groups counted from the last one after `::`.
HexGroupRendering ==
    Written =>
        LET fields == Split(writer, ":")
            n == Len(fields)
        IN  \A k \in 1..n :
              fields[k] /= << >> =>
                /\ IsHexText(fields[k])
                /\ formatter.leading_zeros => Len(fields[k]) = 4
                /\ ~formatter.leading_zeros =>
                      /\ Len(fields[k]) \in 1..4
                      /\ fields[k][1] = "0" => Len(fields[k]) = 1
                /\ (\A j \in 1..(k - 1) : fields[j] /= << >>) =>
                      Hex(fields[k]) = At(formatter.hextets, k - 1)
                /\ (\A j \in (k + 1)..n : fields[j] /= << >>) =>
                      Hex(fields[k]) = At(formatter.hextets, 7 - (n - k))

\* C23 witness: with leading zeros, a group of one digit beside the `::`
\* that stands for the other seven groups is written with four digits.
HexGroupWitness ==
    /\ Written
    /\ formatter.leading_zeros /\ formatter.ellipsis /\ ~formatter.upper_case
    /\ writer = <<":", ":", "0", "0", "0", "a">>

\* the number of colons of s
Colons(s) == Cardinality({ k \in 1..Len(s) : s[k] = ":" })

\* the number of groups written in s: the non-empty fields between colons
WrittenGroups(s) ==
    LET fields == Split(s, ":")
    IN  Cardinality({ k \in 1..Len(fields) : fields[k] /= << >> })

\* the text before the `::` of s and the text after it
BeforeMarker(s) == SubSeq(s, 1, (CHOOSE k \in Markers(s) : TRUE) - 1)

AfterMarker(s) == SubSeq(s, (CHOOSE k \in Markers(s) : TRUE) + 2, Len(s))

\* t is groups with one colon between each two of them, or nothing
SingleColons(t) == t = << >> \/ Colons(t) = WrittenGroups(t) - 1

\* C24: the text written never has three colons in a row and never starts or
\* ends with a single colon; without `::` it is groups with one colon between
\* each two of them; with `::`, which occurs once, that is so of the text
\* before the `::` and of the text after it.
SeparatorPlacement ==
    Written =>
        /\ \A k \in 1..(Len(writer) - 2) :
              ~(writer[k] = ":" /\ writer[k + 1] = ":" /\ writer[k + 2] = ":")
        /\ ~StartsWithSingleColon(writer)
        /\ ~EndsWithSingleColon(writer)
        /\ IF HasMarker(writer)
           THEN /\ Cardinality(Markers(writer)) = 1
                /\ SingleColons(BeforeMarker(writer))
                /\ SingleColons(AfterMarker(writer))
           ELSE writer /= << >> /\ SingleColons(writer)

\* C24 witness: a text with two groups or more on each side of its `::`.
SeparatorWitness ==
    /\ Written
    /\ HasMarker(writer)
    /\ WrittenGroups(BeforeMarker(writer)) >= 2
    /\ WrittenGroups(AfterMarker(writer)) >= 2
    /\ Colons(writer) = WrittenGroups(writer)

\* C25: with elision disabled, whatever leading_zeros and upper_case, the
\* text has 7 colons, no `::`, and 8 groups of which the k-th has the value of
\* bits 128 - 16k .. 143 - 16k of the address; and from_str of the text
\* returns the address.
UnelidedRoundTrip ==
    ~formatter.ellipsis =>
        /\ Written =>
              LET fields == Split(writer, ":")
              IN  /\ Colons(writer) = 7
                  /\ ~HasMarker(writer)
                  /\ Len(fields) = 8
                  /\ \A k \in 1..8 :
                        /\ IsHexText(fields[k])
                        /\ Hex(fields[k]) = ip[2 * k - 1] * 256 + ip[2 * k]
        /\ pc = "done" => result = Ok(ip)

\* C25 witness: an address with a run of zero groups, written without
\* elision, in upper case and without leading zeros, has come back from from_str.
UnelidedWitness ==
    /\ pc = "done"
    /\ ~formatter.ellipsis /\ formatter.upper_case /\ ~formatter.leading_zeros
    /\ \E r \in ZeroRuns(formatter.hextets) : RunLen(r) >= 2
    /\ ip /= pack(Zeros8)
    /\ Contains(writer, "F")
    /\ result = Ok(ip)

\* C28: whatever the value and the configuration, the text written is 2 to
\* 46 bytes long, has at most one `::`, has fewer than 8 groups when it has a
\* `::` and 8 groups when it has none, and from_str accepts it.
WrittenTextAccepted ==
    /\ Written =>
          /\ Len(writer) \in 2..46
          /\ Cardinality(Markers(writer)) <= 1
          /\ IF HasMarker(writer) THEN WrittenGroups(writer) < 8 ELSE WrittenGroups(writer) = 8
    /\ (pc = "done" /\ round = 1) => (result.tag = "Ok" /\ parser.bytes = writer)

\* C28 witness: a text with `::`, leading zeros and capitals has been
\* accepted, with groups read on both sides of the ellipsis.
WrittenTextWitness ==
    /\ Accepted
    /\ formatter.ellipsis /\ formatter.leading_zeros /\ formatter.upper_case
    /\ parser.bytes = writer
    /\ IsSome(parser.ellipsis)
    /\ Unwrap(parser.ellipsis) >= 1
    /\ parser.hextet_index > Unwrap(parser.ellipsis)
    /\ Contains(writer, "F")

\* no two adjacent groups of h are both zero
ZerosIsolated(h) == \A i \in 0..6 : ~(At(h, i) = 0 /\ At(h, i + 1) = 0)

\* C29: when longest_zero_sequence returns Some((start, end)),
\* 0 <= start < end <= 7; and with elision enabled, a value of which no two
\* adjacent groups are both zero is written with its 8 groups and no `::`.
ElisionSpansTwoGroups ==
    (Written /\ formatter.ellipsis) =>
        LET seq == longest_zero_sequence(formatter.hextets)
        IN  /\ IsSome(seq) =>
                  (0 <= Unwrap(seq)[1] /\ Unwrap(seq)[1] < Unwrap(seq)[2] /\ Unwrap(seq)[2] <= 7)
            /\ ZerosIsolated(formatter.hextets) =>
                  (~HasMarker(writer) /\ writer = GroupsText(0, 7))

\* the first half of C29 alone
ElisionRangeOrdered ==
    (Written /\ formatter.ellipsis) =>
        LET seq == longest_zero_sequence(formatter.hextets)
        IN  IsSome(seq) =>
                (0 <= Unwrap(seq)[1] /\ Unwrap(seq)[1] < Unwrap(seq)[2] /\ Unwrap(seq)[2] <= 7)

----------------------------------------------------------------------------
(* Claims about the multicast scope, under SpecScope *)

\* the 4-bit scope field of v: the low nibble of its second octet
ScopeField(v) == v[2] % 16

\* the scope that stands for the code n of the scope field
ScopeOfCode(n) ==
    CASE n = 1 -> InterfaceLocal
      [] n = 2 -> LinkLocal
      [] n = 4 -> AdminLocal
      [] n = 5 -> SiteLocal
      [] n = 8 -> OrganizationLocal
      [] n = 14 -> Global
      [] n \in {0, 3, 15} -> Reserved(n)
      [] n \in {6, 7} \cup 9..13 -> Unassigned(n)

\* C26: scope() of an address returns the scope that stands for the low
\* nibble of the second most significant octet of the address.
ScopeClassifies ==
    (pc = "read" /\ ~IsSome(scoped.set)) => scoped.got = Some(ScopeOfCode(ScopeField(ip)))

\* C30: after a.set_scope(s), a.scope() returns s, and the address differs
\* from what it was in the 4 bits of the scope field at most.
SetScopeThenScope ==
    IsSome(scoped.set) =>
        /\ \A k \in 1..16 : k /= 2 => ip[k] = scoped.before[k]
        /\ ip[2] \div 16 = scoped.before[2] \div 16
        /\ pc = "read" => scoped.got = scoped.set

\* what set_scope does leave as it was: the flags nibble of the second octet
\* and the 14 octets after it
SetScopeFrame ==
    IsSome(scoped.set) =>
        /\ \A k \in 3..16 : ip[k] = scoped.before[k]
        /\ ip[2] \div 16 = scoped.before[2] \div 16

====
